---------------------------- MODULE Spec2Model ----------------------------
(***************************************************************************)
(* Session registry and temporary-artifact lifecycle of src/app4.py.       *)
(*                                                                         *)
(* The Flask application runs with threaded=True (app4.py:1905): every     *)
(* request is handled on a thread of its own and the module-level dict     *)
(* TEMP_FILES (app4.py:29) is shared by all of them without a lock.  The   *)
(* model keeps one program counter per request thread and splits each      *)
(* handler at the places where it reads or writes TEMP_FILES or the temp   *)
(* directory, so that every interleaving the interpreter can produce is a  *)
(* behaviour of Spec.  SpecSeq is the same program with the requests       *)
(* served one after the other (threaded = FALSE), in a temp directory      *)
(* whose files may also be removed from outside.                           *)
(*                                                                         *)
(* The voice directory and the HTTP API are modelled request by request:   *)
(* SpecVoices loads the catalog (load_voices) and queries it (get_voices,  *)
(* filter_voices, find_voice_by_input), SpecApi runs the preview, generate *)
(* and cleanup routes for browsers with their session cookies, and         *)
(* SpecRate applies calculate_rate_parameter to the speeds.                *)
(***************************************************************************)
EXTENDS Integers, Sequences, FiniteSets, TLC

\* ------------------------------------------------------------- bounds
NumThreads == 2        \* threads of control active at once: request threads and,
                       \* at shutdown, the thread that runs the atexit hook
NumSessions == 2       \* distinct session identifiers (browser clients)
MaxFiles == 2          \* temp files handed out in a run of the threaded server
MaxFilesSerial == 3    \* the same, in a run that serves one request at a time
MaxDeviation == 1000   \* speeds differ from 1.0 by at most so many thousandths
MaxVoices == 4         \* voices in the list the provider returns

Threads == 1..NumThreads
Sessions == 1..NumSessions
NoSession == 0
NoPath == <<>>
NoList == 0
\* TEMP_FILES = {}
EmptyDict == [x \in {} |-> NoList]

\* ------------------------------------------------- paths and file names
\* tempfile.NamedTemporaryFile(delete=False, suffix='.mp3') creates a file with
\* a fresh name in the one temp directory; n stands for the random name.
Path(n) == <<"tmp", n>>

\* os.path.basename: the last component of the path.
Basename(p) == p[Len(p)]

\* f'/audio/{session_id}/{basename}'
AudioUrl(sid, p) == <<"audio", sid, Basename(p)>>
NoUrl == <<>>

\* ----------------------------------------------------------------- text
\* Text values (names, locales, search strings) are sequences of characters, so
\* that lower(), upper(), strip(), split() and the "in" test act on them as the
\* interpreter's do.
UpperCase == <<"A", "B", "C", "D", "E", "F", "G", "H", "I", "J", "K", "L", "M",
               "N", "O", "P", "Q", "R", "S", "T", "U", "V", "W", "X", "Y", "Z">>
LowerCase == <<"a", "b", "c", "d", "e", "f", "g", "h", "i", "j", "k", "l", "m",
               "n", "o", "p", "q", "r", "s", "t", "u", "v", "w", "x", "y", "z">>

LowerChar(c) ==
    IF \E i \in 1..Len(UpperCase) : UpperCase[i] = c
    THEN LowerCase[CHOOSE i \in 1..Len(UpperCase) : UpperCase[i] = c] ELSE c
UpperChar(c) ==
    IF \E i \in 1..Len(LowerCase) : LowerCase[i] = c
    THEN UpperCase[CHOOSE i \in 1..Len(LowerCase) : LowerCase[i] = c] ELSE c

\* str.lower(), str.upper()
lower(s) == IF s = <<>> THEN <<>> ELSE [i \in 1..Len(s) |-> LowerChar(s[i])]
upper(s) == IF s = <<>> THEN <<>> ELSE [i \in 1..Len(s) |-> UpperChar(s[i])]

\* str.strip(): without the leading and trailing blanks
strip(s) ==
    LET keep == {i \in 1..Len(s) : s[i] # " "} IN
    IF keep = {} THEN <<>>
    ELSE SubSeq(s, CHOOSE i \in keep : \A j \in keep : i <= j,
                   CHOOSE i \in keep : \A j \in keep : i >= j)

\* sub in s
contains(sub, s) ==
    \E i \in 0..(Len(s) - Len(sub)) : SubSeq(s, i + 1, i + Len(sub)) = sub

\* s.split('-')[0]: the text before the first hyphen, all of it when there is none
split_first(s) ==
    LET dashes == {i \in 1..Len(s) : s[i] = "-"} IN
    IF dashes = {} THEN s
    ELSE SubSeq(s, 1, (CHOOSE i \in dashes : \A j \in dashes : i <= j) - 1)

Female == <<"F", "e", "m", "a", "l", "e">>
Male == <<"M", "a", "l", "e">>
Unknown == <<"U", "n", "k", "n", "o", "w", "n">>
English == <<"E", "n", "g", "l", "i", "s", "h">>
All == <<"A", "l", "l">>

\* ------------------------------------------------------ voice directory
\* get_fallback_voices(): one language group with two descriptors.
Jenny ==
    [display_name |-> <<"E", "n", "g", "l", "i", "s", "h", " ", "F", "e", "m", "a", "l", "e",
                        " ", "-", " ", "J", "e", "n", "n", "y">>,
     short_name |-> <<"e", "n", "-", "U", "S", "-", "J", "e", "n", "n", "y",
                      "N", "e", "u", "r", "a", "l">>,
     info |-> [Locale |-> <<"e", "n", "-", "U", "S">>, Gender |-> Female],
     language |-> English, locale |-> <<"e", "n", "-", "U", "S">>, gender |-> Female]
Guy ==
    [display_name |-> <<"E", "n", "g", "l", "i", "s", "h", " ", "M", "a", "l", "e",
                        " ", "-", " ", "G", "u", "y">>,
     short_name |-> <<"e", "n", "-", "U", "S", "-", "G", "u", "y",
                      "N", "e", "u", "r", "a", "l">>,
     info |-> [Locale |-> <<"e", "n", "-", "U", "S">>, Gender |-> Male],
     language |-> English, locale |-> <<"e", "n", "-", "U", "S">>, gender |-> Male]

\* A dict is a sequence of its items in insertion order: LANGUAGE_VOICES holds
\* [language, voices] items, VOICE_DATA holds the descriptors themselves, each
\* under the key of its display name.
get_fallback_voices == <<[language |-> English, voices |-> <<Jenny, Guy>>]>>

\* An entry of edge_tts.list_voices(): a dict read with v.get(key, default).
\* A key that the entry lacks holds Missing here.
Missing == <<"<missing>">>
Get(v, key, default) == IF v[key] = Missing THEN default ELSE v[key]

ProviderVoice(locale, short, friendly, gender) ==
    [Locale |-> locale, ShortName |-> short, FriendlyName |-> friendly, Gender |-> gender]

\* What the provider may list: two voices that share the friendly name and the
\* gender, one of them without a locale; voices of other languages, one with a
\* padded locale, one without a friendly name, one without a gender and of a
\* language the loader has no name for; and one without the short name.
ProviderVoices ==
    <<ProviderVoice(<<"e", "n", "-", "U", "S">>, <<"e", "n", "-", "U", "S", "-", "A">>,
                    <<"A", "v", "a">>, Female),
      ProviderVoice(Missing, <<"e", "n", "-", "G", "B", "-", "A">>,
                    <<"A", "v", "a">>, Female),
      ProviderVoice(<<"e", "s", "-", "E", "S", " ">>, <<"e", "s", "-", "E", "S", "-", "E">>,
                    <<"E", "v", "a">>, Female),
      ProviderVoice(<<"f", "r", "-", "F", "R">>, <<"f", "r", "-", "F", "R", "-", "H">>,
                    Missing, Male),
      ProviderVoice(<<"j", "a", "-", "J", "P">>, <<"j", "a", "-", "J", "P", "-", "K">>,
                    <<"K", "e", "i">>, Missing),
      ProviderVoice(<<"d", "e", "-", "D", "E">>, Missing, <<"B", "o">>, Male)>>

\* lang_names.get(lang_code, f"{lang_code.upper()} Language")
lang_names(lang_code) ==
    CASE lang_code = <<"e", "n">> -> English
      [] lang_code = <<"e", "s">> -> <<"S", "p", "a", "n", "i", "s", "h">>
      [] lang_code = <<"f", "r">> -> <<"F", "r", "e", "n", "c", "h">>
      [] lang_code = <<"d", "e">> -> <<"G", "e", "r", "m", "a", "n">>
      [] OTHER -> upper(lang_code) \o <<" ", "L", "a", "n", "g", "u", "a", "g", "e">>

\* The body of the loop of load_voices for one entry v: the descriptor built
\* from it (app4.py:94-116).
voice_data(v) ==
    LET locale == strip(Get(v, "Locale", <<>>))
        short_name == Get(v, "ShortName", <<>>)
        friendly == Get(v, "FriendlyName", short_name)
        gender == Get(v, "Gender", Unknown)
        lang_code == IF locale # <<>> THEN split_first(locale) ELSE <<"e", "n">>
    IN [display_name |-> friendly \o <<" ", "-", " ">> \o gender,
        short_name |-> short_name,
        info |-> v,
        language |-> lang_names(lang_code),
        locale |-> locale,
        gender |-> gender]

\* if not short_name: continue
Skipped(v) == Get(v, "ShortName", <<>>) = <<>>

\* language_groups[language_name].append(voice_data), after
\* "if language_name not in language_groups: language_groups[language_name] = []"
GroupAppend(groups, d) ==
    IF \E i \in 1..Len(groups) : groups[i].language = d.language
    THEN [i \in 1..Len(groups) |->
             IF groups[i].language = d.language
             THEN [groups[i] EXCEPT !.voices = Append(@, d)] ELSE groups[i]]
    ELSE Append(groups, [language |-> d.language, voices |-> <<d>>])

\* language_groups after the loop over voices[1..n]
RECURSIVE language_groups(_, _)
language_groups(voices, n) ==
    IF n = 0 THEN <<>>
    ELSE IF Skipped(voices[n]) THEN language_groups(voices, n - 1)
    ELSE GroupAppend(language_groups(voices, n - 1), voice_data(voices[n]))

\* all_voices after the loop over voices[1..n]
RECURSIVE all_voices(_, _)
all_voices(voices, n) ==
    IF n = 0 THEN <<>>
    ELSE IF Skipped(voices[n]) THEN all_voices(voices, n - 1)
    ELSE Append(all_voices(voices, n - 1), voice_data(voices[n]))

\* d[v['display_name']] = v: a key the dict has keeps its place and takes the
\* new value, a new key goes to the end.
DictPut(d, v) ==
    IF \E i \in 1..Len(d) : d[i].display_name = v.display_name
    THEN [i \in 1..Len(d) |-> IF d[i].display_name = v.display_name THEN v ELSE d[i]]
    ELSE Append(d, v)

\* {v['display_name']: v for v in vs[1..n]}
RECURSIVE by_display_name(_, _)
by_display_name(vs, n) ==
    IF n = 0 THEN <<>> ELSE DictPut(by_display_name(vs, n - 1), vs[n])

\* for voices in groups.values() for v in voices: the descriptors of all groups
RECURSIVE values_of(_, _)
values_of(groups, n) ==
    IF n = 0 THEN <<>> ELSE values_of(groups, n - 1) \o groups[n].voices

\* Mutant of load_voices: without the handler of the outer try, a provider
\* call that raises leaves the tables empty and the load reports failure.
load_voices_unguarded(network, raises, voices) ==
    IF network /\ raises
    THEN [LANGUAGE_VOICES |-> <<>>, VOICE_DATA |-> <<>>, all_voices |-> <<>>,
          ret |-> FALSE, list_voices_calls |-> 1]
    ELSE IF ~network
    THEN [LANGUAGE_VOICES |-> get_fallback_voices,
          VOICE_DATA |-> by_display_name(values_of(get_fallback_voices, Len(get_fallback_voices)),
                                         Len(values_of(get_fallback_voices,
                                                       Len(get_fallback_voices)))),
          all_voices |-> values_of(get_fallback_voices, Len(get_fallback_voices)),
          ret |-> TRUE,
          list_voices_calls |-> IF network THEN 1 ELSE 0]
    ELSE [LANGUAGE_VOICES |-> language_groups(voices, Len(voices)),
          VOICE_DATA |-> by_display_name(all_voices(voices, Len(voices)),
                                         Len(all_voices(voices, Len(voices)))),
          all_voices |-> all_voices(voices, Len(voices)),
          ret |-> TRUE,
          list_voices_calls |-> 1]

\* load_voices(): the two tables it installs, the descriptors it built for
\* them, its return value and the number of calls of edge_tts.list_voices() it
\* made.  network: the result of
\* check_internet_connection(); raises: the provider call (or the reading of
\* its result) raises; voices: what the provider lists otherwise.
load_voices(network, raises, voices) ==
    IF ~network \/ raises
    THEN [LANGUAGE_VOICES |-> get_fallback_voices,
          VOICE_DATA |-> by_display_name(values_of(get_fallback_voices, Len(get_fallback_voices)),
                                         Len(values_of(get_fallback_voices,
                                                       Len(get_fallback_voices)))),
          all_voices |-> values_of(get_fallback_voices, Len(get_fallback_voices)),
          ret |-> TRUE,
          list_voices_calls |-> IF network THEN 1 ELSE 0]
    ELSE [LANGUAGE_VOICES |-> language_groups(voices, Len(voices)),
          VOICE_DATA |-> by_display_name(all_voices(voices, Len(voices)),
                                         Len(all_voices(voices, Len(voices)))),
          all_voices |-> all_voices(voices, Len(voices)),
          ret |-> TRUE,
          list_voices_calls |-> 1]

VARIABLES
    TEMP_FILES,  \* dict: session id -> reference (index into lists) of its list
    lists,       \* the list objects ever stored in TEMP_FILES, by reference
    disk,        \* the temp files that exist in the temp directory
    created,     \* created[n]: the session whose request created Path(n)
    th,          \* per thread: position in its handler and the handler's locals
    todo,        \* cleanup_all: the snapshot list(TEMP_FILES.keys()) still to visit
    purgedOf,    \* history: per session, the paths its entry listed when a purge deleted it
    everPurged,  \* history: the sessions whose entry some purge has deleted
    unlinked,    \* history: the paths some purge has unlinked
    failed,      \* history: the paths whose unlink raised in some purge
    earlier,     \* history: the files of the requests that had returned when cleanup_all began
    threaded,    \* app.run(threaded=...): requests on concurrent threads, or one at a time
    VOICE_DATA,       \* dict: display name -> descriptor, in insertion order
    LANGUAGE_VOICES,  \* dict: language -> list of descriptors, in insertion order
    loaded,      \* history: the descriptors load_voices has built, in the order it built them
    session,     \* per browser: the 'session_id' of its session cookie, if any
    phase,       \* "import" until initialize_app has run, "serving" afterwards
    call,        \* the last call of the HTTP API or of a helper: its inputs and its result
    WHISPER_MODEL,   \* the transcription engine loaded at import, or None
    providerFailed   \* history: the temp files of the requests whose provider call raised

\* The browser-facing state, which the steps of the artifact lifecycle leave alone.
apiVars == <<VOICE_DATA, LANGUAGE_VOICES, loaded, session, phase, call,
             WHISPER_MODEL, providerFailed>>

vars == <<TEMP_FILES, lists, disk, created, th, todo, purgedOf, everPurged,
          unlinked, failed, earlier, threaded, apiVars>>

\* Python's None
None == [none |-> TRUE]

Browsers == 1..NumSessions
NoCall == [op |-> "none", arg |-> <<>>, res |-> <<>>]

\* The application has been imported without network: initialize_app() has
\* installed the fallback catalog; no browser has a session cookie yet.
Offline == load_voices(FALSE, FALSE, <<>>)
ApiIdle ==
    /\ VOICE_DATA = Offline.VOICE_DATA
    /\ LANGUAGE_VOICES = Offline.LANGUAGE_VOICES
    /\ loaded = Offline.all_voices
    /\ session = [b \in Browsers |-> NoSession]
    /\ phase = "serving"
ApiInit == ApiIdle /\ call = NoCall /\ WHISPER_MODEL = None

NoResp == [status |-> 0, error |-> "", url |-> NoUrl, filename |-> 0]

IdleRec == [pc |-> "idle", kind |-> "none", sid |-> NoSession, fname |-> 0,
            path |-> NoPath, lst |-> NoList, idx |-> 0, resp |-> NoResp]

InitState ==
    /\ TEMP_FILES = EmptyDict
    /\ lists = <<>>
    /\ disk = {}
    /\ created = <<>>
    /\ th = [t \in Threads |-> IdleRec]
    /\ todo = {}
    /\ purgedOf = [s \in Sessions |-> {}]
    /\ everPurged = {}
    /\ unlinked = {}
    /\ failed = {}
    /\ earlier = {}
    /\ providerFailed = {}

\* app.run(debug=False, host='0.0.0.0', port=port, threaded=True)
Init == InitState /\ ApiInit /\ threaded = TRUE

\* The same application behind a server that handles one request at a time.
InitSeq == InitState /\ ApiInit /\ threaded = FALSE

\* ----------------------------------------------------------- helpers
Range(s) == {s[i] : i \in 1..Len(s)}

\* The paths TEMP_FILES[sid] lists; nothing when the session has no entry.
Listed(sid) == IF sid \in DOMAIN TEMP_FILES THEN lists[TEMP_FILES[sid]] ELSE <<>>

\* dict item assignment and deletion
DictSet(d, k, v) == [x \in DOMAIN d \cup {k} |-> IF x = k THEN v ELSE d[x]]
DictDel(d, k) == [x \in DOMAIN d \ {k} |-> d[x]]

\* The server accepts requests until the process is told to stop and the atexit
\* hook starts; the request threads are daemon threads and die with the
\* interpreter once the hook has ended.
Serving == \A u \in Threads : th[u].kind # "cleanup_all"
Alive == \A u \in Threads : th[u].pc # "exited"

\* The number of temp files of a run.
FileCap == IF threaded THEN MaxFiles ELSE MaxFilesSerial

\* Without threads a request is handled to its end before the next one is taken.
Solo(t) == \A u \in Threads \ {t} : th[u].pc = "idle"
Turn(t) == threaded \/ Solo(t)

At(t, pc) == Alive /\ Turn(t) /\ th[t].pc = pc
Accepts(t) == Serving /\ Turn(t) /\ th[t].pc = "idle"

JsonOk(url, filename) == [status |-> 200, error |-> "", url |-> url, filename |-> filename]
JsonError(code, msg) == [status |-> code, error |-> msg, url |-> NoUrl, filename |-> 0]

Finish(t, r) == th' = [th EXCEPT ![t].pc = "done", ![t].resp = r, ![t].lst = NoList]

\* ------------------------------------------- preview_voice / generate_speech
\* Request inputs: the voice field (empty: find_voice_by_input returns None) and
\* the text field (empty after strip, or not).
VoiceInputs == {"", "en-US-AvaNeural"}
TextInputs == {"", "Hello"}

\* The temp file of the request: created on disk, not yet registered.
alloc_tempfile(t, kind, sid) ==
    LET n == Len(created) + 1 IN
    /\ n <= FileCap
    /\ created' = Append(created, sid)
    /\ disk' = disk \cup {Path(n)}
    /\ th' = [th EXCEPT ![t] = [IdleRec EXCEPT !.pc = "a_check", !.kind = kind,
                                               !.sid = sid, !.path = Path(n)]]

\* POST /api/preview up to the temp file's creation (app4.py:1704-1718).
preview_voice(t) ==
    /\ Accepts(t)
    /\ \E sid \in Sessions, voice \in VoiceInputs :
          IF voice = ""
          THEN /\ th' = [th EXCEPT ![t] = [IdleRec EXCEPT !.pc = "done", !.kind = "preview",
                            !.sid = sid, !.resp = JsonError(400, "Invalid voice")]]
               /\ UNCHANGED <<created, disk>>
          ELSE alloc_tempfile(t, "preview", sid)
    /\ UNCHANGED <<TEMP_FILES, lists, todo, purgedOf, everPurged, unlinked, failed, earlier, threaded, apiVars>>

\* POST /api/generate up to the temp file's creation (app4.py:1741-1758).
generate_speech(t) ==
    /\ Accepts(t)
    /\ \E sid \in Sessions, voice \in VoiceInputs, text \in TextInputs :
          IF text = ""
          THEN /\ th' = [th EXCEPT ![t] = [IdleRec EXCEPT !.pc = "done", !.kind = "generate",
                            !.sid = sid, !.resp = JsonError(400, "No text provided")]]
               /\ UNCHANGED <<created, disk>>
          ELSE IF voice = ""
          THEN /\ th' = [th EXCEPT ![t] = [IdleRec EXCEPT !.pc = "done", !.kind = "generate",
                            !.sid = sid, !.resp = JsonError(400, "Invalid voice")]]
               /\ UNCHANGED <<created, disk>>
          ELSE alloc_tempfile(t, "generate", sid)
    /\ UNCHANGED <<TEMP_FILES, lists, todo, purgedOf, everPurged, unlinked, failed, earlier, threaded, apiVars>>

\* Mutant of register_check: the membership test is left out and every
\* allocation starts the session's list afresh.
register_check_reset(t) ==
    /\ At(t, "a_check")
    /\ th' = [th EXCEPT ![t].pc = "a_setempty"]
    /\ UNCHANGED <<TEMP_FILES, lists, disk, created, todo, purgedOf, everPurged,
                   unlinked, failed, earlier, threaded, apiVars>>

\* if session_id not in TEMP_FILES:
register_check(t) ==
    /\ At(t, "a_check")
    /\ th' = [th EXCEPT ![t].pc = IF th[t].sid \in DOMAIN TEMP_FILES
                                  THEN "a_subscr" ELSE "a_setempty"]
    /\ UNCHANGED <<TEMP_FILES, lists, disk, created, todo, purgedOf, everPurged,
                   unlinked, failed, earlier, threaded, apiVars>>

\* Mutant of register_setempty: one shared list object serves as the initial
\* value of every entry.
register_setempty_shared(t) ==
    /\ At(t, "a_setempty")
    /\ lists' = IF lists = <<>> THEN <<<<>>>> ELSE lists
    /\ TEMP_FILES' = DictSet(TEMP_FILES, th[t].sid, 1)
    /\ th' = [th EXCEPT ![t].pc = "a_subscr"]
    /\ UNCHANGED <<disk, created, todo, purgedOf, everPurged, unlinked, failed, earlier,
                   threaded, apiVars>>

\*     TEMP_FILES[session_id] = []      (a new list object replaces any entry)
register_setempty(t) ==
    /\ At(t, "a_setempty")
    /\ lists' = Append(lists, <<>>)
    /\ TEMP_FILES' = DictSet(TEMP_FILES, th[t].sid, Len(lists) + 1)
    /\ th' = [th EXCEPT ![t].pc = "a_subscr"]
    /\ UNCHANGED <<disk, created, todo, purgedOf, everPurged, unlinked, failed, earlier, threaded, apiVars>>

\* TEMP_FILES[session_id]   (the subscript of the append statement: KeyError when
\* the entry is gone, caught by the handler's except Exception -> 500)
register_subscr(t) ==
    /\ At(t, "a_subscr")
    /\ IF th[t].sid \in DOMAIN TEMP_FILES
       THEN th' = [th EXCEPT ![t].pc = "a_append", ![t].lst = TEMP_FILES[th[t].sid]]
       ELSE Finish(t, JsonError(500, "KeyError"))
    /\ UNCHANGED <<TEMP_FILES, lists, disk, created, todo, purgedOf, everPurged,
                   unlinked, failed, earlier, threaded, apiVars>>

\*                         .append(temp_file.name)   (on the list object read above)
register_append(t) ==
    /\ At(t, "a_append")
    /\ lists' = [lists EXCEPT ![th[t].lst] = Append(@, th[t].path)]
    /\ th' = [th EXCEPT ![t].pc = "a_synth"]
    /\ UNCHANGED <<TEMP_FILES, disk, created, todo, purgedOf, everPurged, unlinked, failed, earlier, threaded, apiVars>>

\* asyncio.run(generate()) and the response.  comm.save opens the destination for
\* writing, so a file unlinked meanwhile exists again afterwards; a provider
\* failure is raised before or after the open.
synthesize(t) ==
    /\ At(t, "a_synth")
    /\ \/ /\ disk' = disk \cup {th[t].path}
          /\ Finish(t, JsonOk(AudioUrl(th[t].sid, th[t].path),
                              IF th[t].kind = "generate" THEN Basename(th[t].path) ELSE 0))
       \/ /\ \E reopened \in BOOLEAN :
                disk' = IF reopened THEN disk \cup {th[t].path} ELSE disk
          /\ Finish(t, JsonError(500, "provider"))
    /\ UNCHANGED <<TEMP_FILES, lists, created, todo, purgedOf, everPurged, unlinked, failed, earlier, threaded, apiVars>>

\* ------------------------------------------------------ cleanup_temp_files
\* What follows the return of cleanup_temp_files in its two callers:
\* cleanup_session answers {'success': True}; cleanup_all goes on with the next key.
cleanup_returned(t, rec) ==
    IF rec.kind = "cleanup_all"
    THEN th' = [th EXCEPT ![t] = [rec EXCEPT !.pc = "sd_next"]]
    ELSE th' = [th EXCEPT ![t] = [rec EXCEPT !.pc = "done", !.resp = JsonOk(NoUrl, 0)]]

\* A KeyError leaves cleanup_temp_files: Flask answers 500 for the request; the
\* atexit machinery reports the exception and cleanup_all is over.
cleanup_raised(t, rec) ==
    IF rec.kind = "cleanup_all"
    THEN th' = [th EXCEPT ![t] = [rec EXCEPT !.pc = "exited",
                                             !.resp = JsonError(500, "KeyError")]]
    ELSE th' = [th EXCEPT ![t] = [rec EXCEPT !.pc = "done",
                                             !.resp = JsonError(500, "KeyError")]]

\* cleanup_temp_files(session_id) is entered:  if session_id in TEMP_FILES:
cleanup_enter(t, kind, sid) ==
    LET rec == [IdleRec EXCEPT !.kind = kind, !.sid = sid] IN
    IF sid \in DOMAIN TEMP_FILES
    THEN th' = [th EXCEPT ![t] = [rec EXCEPT !.pc = "c_iter"]]
    ELSE cleanup_returned(t, rec)

\* POST /api/cleanup: get_session_id(), then the membership test of line 151.
cleanup_session(t) ==
    /\ Accepts(t)
    /\ \E sid \in Sessions : cleanup_enter(t, "cleanup", sid)
    /\ UNCHANGED <<TEMP_FILES, lists, disk, created, todo, purgedOf, everPurged,
                   unlinked, failed, earlier, threaded, apiVars>>

\* for temp_file in TEMP_FILES[session_id]:   (the subscript; the iterator then
\* walks that list object by index)
cleanup_iter(t) ==
    /\ At(t, "c_iter")
    /\ IF th[t].sid \in DOMAIN TEMP_FILES
       THEN th' = [th EXCEPT ![t].pc = "c_loop", ![t].lst = TEMP_FILES[th[t].sid],
                             ![t].idx = 1]
       ELSE cleanup_raised(t, th[t])
    /\ UNCHANGED <<TEMP_FILES, lists, disk, created, todo, purgedOf, everPurged,
                   unlinked, failed, earlier, threaded, apiVars>>

\* Mutant of cleanup_loop: no try/except around the unlink, so an unlink that
\* raises ends the purge with the exception.
cleanup_loop_raise(t) ==
    /\ At(t, "c_loop")
    /\ IF th[t].idx > Len(lists[th[t].lst])
       THEN /\ th' = [th EXCEPT ![t].pc = "c_del"]
            /\ UNCHANGED <<disk, unlinked, failed>>
       ELSE LET temp_file == lists[th[t].lst][th[t].idx] IN
            IF temp_file \in disk
            THEN \/ /\ disk' = disk \ {temp_file}
                    /\ unlinked' = unlinked \cup {temp_file}
                    /\ th' = [th EXCEPT ![t].idx = @ + 1]
                    /\ UNCHANGED failed
                 \/ /\ failed' = failed \cup {temp_file}
                    /\ th' = [th EXCEPT ![t].pc = IF th[t].kind = "cleanup_all"
                                                  THEN "exited" ELSE "done",
                                         ![t].resp = JsonError(500, "OSError")]
                    /\ UNCHANGED <<disk, unlinked>>
            ELSE /\ th' = [th EXCEPT ![t].idx = @ + 1]
                 /\ UNCHANGED <<disk, unlinked, failed>>
    /\ UNCHANGED <<TEMP_FILES, lists, created, todo, purgedOf, everPurged, earlier, threaded, apiVars>>

\* One round of the loop: the next element of the list, if any, and the guarded
\* unlink.  A file that is missing is skipped, an unlink that raises is swallowed
\* by "except Exception: pass"; in both cases disk is unchanged, whatever happens
\* between the os.path.exists test and the unlink.
cleanup_loop(t) ==
    /\ At(t, "c_loop")
    /\ IF th[t].idx > Len(lists[th[t].lst])
       THEN /\ th' = [th EXCEPT ![t].pc = "c_del"]
            /\ UNCHANGED <<disk, unlinked, failed>>
       ELSE LET temp_file == lists[th[t].lst][th[t].idx] IN
            /\ th' = [th EXCEPT ![t].idx = @ + 1]
            /\ IF temp_file \in disk
               THEN \/ /\ disk' = disk \ {temp_file}
                       /\ unlinked' = unlinked \cup {temp_file}
                       /\ UNCHANGED failed
                    \/ /\ failed' = failed \cup {temp_file}
                       /\ UNCHANGED <<disk, unlinked>>
               ELSE UNCHANGED <<disk, unlinked, failed>>
    /\ UNCHANGED <<TEMP_FILES, lists, created, todo, purgedOf, everPurged, earlier, threaded, apiVars>>

\* Mutant of cleanup_del: the entry is dropped only when all of its files are
\* gone, and kept as long as a deletion has failed.
cleanup_del_if_deleted(t) ==
    /\ At(t, "c_del")
    /\ IF th[t].sid \in DOMAIN TEMP_FILES
       THEN /\ TEMP_FILES' = IF Range(Listed(th[t].sid)) \cap disk = {}
                             THEN DictDel(TEMP_FILES, th[t].sid) ELSE TEMP_FILES
            /\ purgedOf' = [purgedOf EXCEPT ![th[t].sid] = @ \cup Range(Listed(th[t].sid))]
            /\ everPurged' = everPurged \cup {th[t].sid}
            /\ cleanup_returned(t, th[t])
       ELSE /\ cleanup_raised(t, th[t])
            /\ UNCHANGED <<TEMP_FILES, purgedOf, everPurged>>
    /\ UNCHANGED <<lists, disk, created, todo, unlinked, failed, earlier, threaded, apiVars>>

\* del TEMP_FILES[session_id]   (KeyError when the entry is gone)
cleanup_del(t) ==
    /\ At(t, "c_del")
    /\ IF th[t].sid \in DOMAIN TEMP_FILES
       THEN /\ TEMP_FILES' = DictDel(TEMP_FILES, th[t].sid)
            /\ purgedOf' = [purgedOf EXCEPT ![th[t].sid] = @ \cup Range(Listed(th[t].sid))]
            /\ everPurged' = everPurged \cup {th[t].sid}
            /\ cleanup_returned(t, th[t])
       ELSE /\ cleanup_raised(t, th[t])
            /\ UNCHANGED <<TEMP_FILES, purgedOf, everPurged>>
    /\ UNCHANGED <<lists, disk, created, todo, unlinked, failed, earlier, threaded, apiVars>>

\* -------------------------------------------------------------- serve_audio
\* GET /audio/<session_id>/<filename>:  if session_id in TEMP_FILES:
serve_audio(t) ==
    /\ Accepts(t)
    /\ \E sid \in Sessions, filename \in 1..FileCap :
          LET rec == [IdleRec EXCEPT !.kind = "serve", !.sid = sid, !.fname = filename] IN
          IF sid \in DOMAIN TEMP_FILES
          THEN th' = [th EXCEPT ![t] = [rec EXCEPT !.pc = "s_iter"]]
          ELSE th' = [th EXCEPT ![t] = [rec EXCEPT !.pc = "done",
                                                   !.resp = JsonError(404, "File not found")]]
    /\ UNCHANGED <<TEMP_FILES, lists, disk, created, todo, purgedOf, everPurged,
                   unlinked, failed, earlier, threaded, apiVars>>

\* for temp_file in TEMP_FILES[session_id]:   (the subscript; an uncaught
\* KeyError is answered 500)
serve_iter(t) ==
    /\ At(t, "s_iter")
    /\ IF th[t].sid \in DOMAIN TEMP_FILES
       THEN th' = [th EXCEPT ![t].pc = "s_scan", ![t].lst = TEMP_FILES[th[t].sid]]
       ELSE Finish(t, JsonError(500, "KeyError"))
    /\ UNCHANGED <<TEMP_FILES, lists, disk, created, todo, purgedOf, everPurged,
                   unlinked, failed, earlier, threaded, apiVars>>

\* The first element of the list whose basename is the requested file name.
FirstMatch(l, filename) ==
    LET hits == {i \in 1..Len(l) : Basename(l[i]) = filename} IN
    IF hits = {} THEN NoPath
    ELSE l[CHOOSE i \in hits : \A j \in hits : i <= j]

\* Mutant of serve_scan: the file name is looked up in one table of all the
\* paths ever registered instead of the session's own list.
serve_scan_global(t) ==
    /\ At(t, "s_scan")
    /\ LET hits == {p \in UNION {Range(lists[i]) : i \in 1..Len(lists)} :
                       Basename(p) = th[t].fname} IN
       IF hits = {}
       THEN Finish(t, JsonError(404, "File not found"))
       ELSE th' = [th EXCEPT ![t].pc = "s_send", ![t].path = CHOOSE p \in hits : TRUE]
    /\ UNCHANGED <<TEMP_FILES, lists, disk, created, todo, purgedOf, everPurged,
                   unlinked, failed, earlier, threaded, apiVars>>

\* The loop over the session's list.  The list only grows, so the scan of one
\* file name is taken in one step.
serve_scan(t) ==
    /\ At(t, "s_scan")
    /\ LET hit == FirstMatch(lists[th[t].lst], th[t].fname) IN
       IF hit = NoPath
       THEN Finish(t, JsonError(404, "File not found"))
       ELSE th' = [th EXCEPT ![t].pc = "s_send", ![t].path = hit]
    /\ UNCHANGED <<TEMP_FILES, lists, disk, created, todo, purgedOf, everPurged,
                   unlinked, failed, earlier, threaded, apiVars>>

\* send_file(temp_file, mimetype='audio/mpeg'): the file's bytes, or the
\* FileNotFoundError of a file that is gone, answered 500.
serve_send(t) ==
    /\ At(t, "s_send")
    /\ IF th[t].path \in disk
       THEN Finish(t, JsonOk(NoUrl, Basename(th[t].path)))
       ELSE Finish(t, JsonError(500, "FileNotFoundError"))
    /\ UNCHANGED <<TEMP_FILES, lists, disk, created, todo, purgedOf, everPurged,
                   unlinked, failed, earlier, threaded, apiVars>>

\* The response has been sent; the thread takes the next request.
request_done(t) ==
    /\ At(t, "done")
    /\ th' = [th EXCEPT ![t] = IdleRec]
    /\ UNCHANGED <<TEMP_FILES, lists, disk, created, todo, purgedOf, everPurged,
                   unlinked, failed, earlier, threaded, apiVars>>

\* ------------------------------------------------------------- cleanup_all
\* The files of the requests that have returned.
ReturnedFiles ==
    {Path(n) : n \in 1..Len(created)} \
    {th[t].path : t \in {u \in Threads : th[u].kind \in {"preview", "generate"}
                                         /\ th[u].pc # "done"}}

\* atexit: cleanup_all takes the snapshot list(TEMP_FILES.keys()).
cleanup_all(t) ==
    /\ Accepts(t)
    /\ todo' = DOMAIN TEMP_FILES
    /\ earlier' = ReturnedFiles
    /\ th' = [th EXCEPT ![t] = [IdleRec EXCEPT !.pc = "sd_next", !.kind = "cleanup_all"]]
    /\ UNCHANGED <<TEMP_FILES, lists, disk, created, purgedOf, everPurged, unlinked, failed,
                   threaded, apiVars>>

\* for session_id in <snapshot>: cleanup_temp_files(session_id); the hook ends
\* after the last key.
cleanup_all_next(t) ==
    /\ At(t, "sd_next")
    /\ IF todo = {}
       THEN /\ th' = [th EXCEPT ![t].pc = "exited"]
            /\ UNCHANGED todo
       ELSE \E sid \in todo :
               /\ todo' = todo \ {sid}
               /\ cleanup_enter(t, "cleanup_all", sid)
    /\ UNCHANGED <<TEMP_FILES, lists, disk, created, purgedOf, everPurged, unlinked, failed, earlier, threaded, apiVars>>

\* ---------------------------------------------------------- environment
\* A temp file disappears without the program's doing (the temp directory is
\* not the program's own); cleanup_temp_files tests os.path.exists for that.
external_unlink ==
    /\ Alive
    /\ \E p \in disk : disk' = disk \ {p}
    /\ UNCHANGED <<TEMP_FILES, lists, created, th, todo, purgedOf, everPurged,
                   unlinked, failed, earlier, threaded, apiVars>>

\* ------------------------------------------------------- specifications
Next ==
    \/ \E t \in Threads :
          \/ preview_voice(t)
          \/ generate_speech(t)
          \/ register_check(t)
          \/ register_setempty(t)
          \/ register_subscr(t)
          \/ register_append(t)
          \/ synthesize(t)
          \/ cleanup_session(t)
          \/ cleanup_iter(t)
          \/ cleanup_loop(t)
          \/ cleanup_del(t)
          \/ serve_audio(t)
          \/ serve_iter(t)
          \/ serve_scan(t)
          \/ serve_send(t)
          \/ request_done(t)
          \/ cleanup_all(t)
          \/ cleanup_all_next(t)

\* The threaded server of app4.py:1905; the temp directory is left to the program.
Spec == Init /\ [][Next]_vars

\* One request at a time, in a temp directory where files may also vanish without
\* the program's doing.
NextSeq == Next \/ external_unlink

SpecSeq == InitSeq /\ [][NextSeq]_vars

\* ------------------------------------------------------------ properties
AllocKinds == {"preview", "generate"}

\* The set of paths TEMP_FILES[sid] lists.
Registered(sid) == Range(Listed(sid))

\* The session whose request created the temp file p.
Owner(p) == created[Basename(p)]

CreatedFiles == {Path(n) : n \in 1..Len(created)}
CreatedFor(sid) == {p \in CreatedFiles : Owner(p) = sid}

\* No request is in the middle of its handler.
Quiescent == \A t \in Threads : th[t].pc \in {"idle", "done"}

\* C1: a serve request answers with a file only if the requested name is the
\* basename of a path that TEMP_FILES lists for the requested session, and that
\* file was allocated under this very session; when the session is unknown or
\* lists no path of that basename the answer is 404.
C1_ServeOnlyOwned ==
    \A t \in Threads :
       (th[t].kind = "serve" /\ th[t].pc = "done") =>
          LET r == th[t]
              match == {p \in Registered(r.sid) : Basename(p) = r.fname} IN
          /\ r.resp.status = 200 =>
                /\ r.path \in match
                /\ r.resp.filename = r.fname
                /\ Owner(r.path) = r.sid
          /\ match = {} => r.resp.status = 404

\* C1 witness: the basename of another session's registered artifact is guessed
\* and the request is answered 404.
C1_Witness ==
    \E t \in Threads :
       /\ th[t].kind = "serve" /\ th[t].pc = "done"
       /\ th[t].resp.status = 404
       /\ \E s \in Sessions \ {th[t].sid} :
             \E p \in Registered(s) : Basename(p) = th[t].fname /\ p \in disk

\* C2: after a purge of a session has returned, a serve request for the basename
\* of a path the session owned before the purge is answered 404, and the
\* registry lists none of these paths, whether or not the files were deleted.
C2_PurgedNotServed ==
    /\ \A s \in Sessions : purgedOf[s] \cap Registered(s) = {}
    /\ \A t \in Threads :
          (/\ th[t].kind = "serve" /\ th[t].pc = "done"
           /\ \E p \in purgedOf[th[t].sid] : Basename(p) = th[t].fname)
          => th[t].resp.status = 404

\* C2 witness: 404 for a purged artifact whose file is still on disk because
\* its unlink raised.
C2_Witness ==
    \E t \in Threads :
       /\ th[t].kind = "serve" /\ th[t].pc = "done" /\ th[t].resp.status = 404
       /\ \E p \in purgedOf[th[t].sid] :
             Basename(p) = th[t].fname /\ p \in disk /\ p \in failed

\* C7: a purge reached through /api/cleanup answers success and leaves the
\* session without an entry, after having tried every file of the list, whatever
\* the unlinks did; cleanup_temp_files raises in neither of its callers.
C7_PurgeAlwaysClears ==
    /\ \A t \in Threads :
          (th[t].kind = "cleanup" /\ th[t].pc = "done") =>
             /\ th[t].resp.status = 200
             /\ th[t].sid \notin DOMAIN TEMP_FILES
             /\ th[t].lst # NoList => th[t].idx = Len(lists[th[t].lst]) + 1
    /\ \A t \in Threads :
          th[t].kind \in {"cleanup", "cleanup_all"} => th[t].resp.error # "KeyError"

\* C7 witness: a purge of three files has returned; the unlink of the first
\* raised, the second was already missing and was skipped, the third was still
\* tried and deleted.
C7_Witness ==
    \E t \in Threads :
       /\ th[t].kind = "cleanup" /\ th[t].pc = "done" /\ th[t].lst # NoList
       /\ LET l == lists[th[t].lst] IN
          /\ Len(l) = 3
          /\ l[1] \in failed /\ l[1] \in disk
          /\ l[2] \notin disk /\ l[2] \notin unlinked /\ l[2] \notin failed
          /\ l[3] \in unlinked /\ l[3] \notin disk

\* C10: a purged session identifier stays usable: between requests the entry of
\* every session lists exactly the artifacts allocated under it that no purge
\* has cleared, an allocation under a purged session is not refused, and its
\* artifact is listed.
C10_ReuseAfterPurge ==
    /\ Quiescent => \A s \in Sessions : Registered(s) = CreatedFor(s) \ purgedOf[s]
    /\ \A t \in Threads :
          (th[t].kind \in AllocKinds /\ th[t].pc = "done" /\ th[t].path # NoPath
           /\ th[t].sid \in everPurged)
          => /\ th[t].resp.error # "KeyError"
             /\ th[t].path \in Registered(th[t].sid)

\* C10 witness: a session that owned an artifact was purged, and a later
\* generate under it has returned its URL.
C10_Witness ==
    \E t \in Threads :
       /\ th[t].kind = "generate" /\ th[t].pc = "done" /\ th[t].resp.status = 200
       /\ purgedOf[th[t].sid] # {}
       /\ Registered(th[t].sid) = {th[t].path}

\* C3: when two allocations of one session, which no purge has touched, have
\* both finished, neither was refused, their paths differ and TEMP_FILES lists
\* both under the session.
C3_BothRegistered ==
    \A t, u \in Threads :
       (/\ t # u
        /\ th[t].kind \in AllocKinds /\ th[t].pc = "done" /\ th[t].path # NoPath
        /\ th[u].kind \in AllocKinds /\ th[u].pc = "done" /\ th[u].path # NoPath
        /\ th[t].sid = th[u].sid
        /\ th[t].sid \notin everPurged)
       => /\ th[t].resp.error # "KeyError"
          /\ th[t].path # th[u].path
          /\ {th[t].path, th[u].path} \subseteq Registered(th[t].sid)

\* C4: an allocation that shared its session with purges only (it is the one
\* allocation of the run) is never refused because the entry was removed under
\* it, and its file, while it exists, is listed under the session or was listed
\* there when a purge cleared the entry.
C4_NoLostRegistration ==
    \A t \in Threads :
       (/\ th[t].kind \in AllocKinds /\ th[t].pc = "done" /\ th[t].path # NoPath
        /\ Len(created) = 1)
       => /\ th[t].resp.error # "KeyError"
          /\ th[t].path \in disk =>
                \/ th[t].path \in Registered(th[t].sid)
                \/ th[t].path \in purgedOf[th[t].sid]

\* C5: TEMP_FILES never lists a path whose file a purge has deleted.
C5_NoListedDeleted ==
    \A s \in DOMAIN TEMP_FILES :
       \A p \in Registered(s) : ~(p \in unlinked /\ p \notin disk)

\* C6: when cleanup_all has run to its end, no unlink having raised, none of
\* the files of the requests that had returned before it began is left on disk,
\* and TEMP_FILES is empty if no allocation was under way when it began.
C6_ShutdownLeavesNothing ==
    (/\ \E t \in Threads : /\ th[t].kind = "cleanup_all" /\ th[t].pc = "exited"
                           /\ th[t].resp.status = 0
     /\ failed = {})
    => /\ earlier \cap disk = {}
       /\ earlier = CreatedFiles => TEMP_FILES = EmptyDict

\* C8: every path is listed by at most one session, and at most once.
C8_PathOwnedOnce ==
    \A s1, s2 \in DOMAIN TEMP_FILES :
       \A i \in 1..Len(Listed(s1)), j \in 1..Len(Listed(s2)) :
          Listed(s1)[i] = Listed(s2)[j] => (s1 = s2 /\ i = j)

\* C8 witness: two sessions own an artifact each.
C8_Witness ==
    \E s1, s2 \in DOMAIN TEMP_FILES :
       s1 # s2 /\ Len(Listed(s1)) > 0 /\ Len(Listed(s2)) > 0

\* C9: at the moment a preview or generate request produces its success
\* response, the artifact its audio_url names is listed under the session of the
\* URL, and the filename of a generate response is the basename in the URL;
\* stated for the one allocation of a run, which shares its session with
\* cleanup requests only.
C9_UrlServable ==
    [][\A t \in Threads :
          (/\ th[t].pc = "a_synth" /\ th'[t].pc = "done" /\ th'[t].resp.status = 200
           /\ Len(created) = 1)
          => /\ th'[t].resp.url = AudioUrl(th[t].sid, th[t].path)
             /\ th[t].kind = "generate" => th'[t].resp.filename = th'[t].resp.url[3]
             /\ th[t].sid \in DOMAIN TEMP_FILES'
             /\ th[t].path \in Range(lists'[TEMP_FILES'[th[t].sid]])]_vars

\* ================================================================ the API
\* The handlers below are taken from the first to the last statement in one
\* step each: one browser's request at a time, which is what they do when no
\* other thread runs in between.

\* None, as returned by find_voice_by_input and by dict.get

\* Mutant of find_voice_by_input: an input that matches nothing is answered
\* with the first voice of the catalog.
find_voice_default(vd, name) ==
    IF name = Missing \/ name = <<>> THEN None
    ELSE IF \E i \in 1..Len(vd) : vd[i].display_name = name
    THEN vd[CHOOSE i \in 1..Len(vd) : vd[i].display_name = name]
    ELSE IF \E i \in 1..Len(vd) : vd[i].short_name = name
    THEN vd[CHOOSE i \in 1..Len(vd) :
               /\ vd[i].short_name = name
               /\ \A j \in 1..(i - 1) : vd[j].short_name # name]
    ELSE IF vd # <<>> THEN vd[1] ELSE [short_name |-> name]

\* Mutant of find_voice_by_input: an input that matches nothing is answered
\* with None.
find_voice_strict(vd, name) ==
    IF name = Missing \/ name = <<>> THEN None
    ELSE IF \E i \in 1..Len(vd) : vd[i].display_name = name
    THEN vd[CHOOSE i \in 1..Len(vd) : vd[i].display_name = name]
    ELSE IF \E i \in 1..Len(vd) : vd[i].short_name = name
    THEN vd[CHOOSE i \in 1..Len(vd) :
               /\ vd[i].short_name = name
               /\ \A j \in 1..(i - 1) : vd[j].short_name # name]
    ELSE None

\* find_voice_by_input(name) on the table vd (VOICE_DATA)
find_voice_by_input(vd, name) ==
    IF name = Missing \/ name = <<>> THEN None
    ELSE IF \E i \in 1..Len(vd) : vd[i].display_name = name
    THEN vd[CHOOSE i \in 1..Len(vd) : vd[i].display_name = name]
    ELSE IF \E i \in 1..Len(vd) : vd[i].short_name = name
    THEN vd[CHOOSE i \in 1..Len(vd) :
               /\ vd[i].short_name = name
               /\ \A j \in 1..(i - 1) : vd[j].short_name # name]
    ELSE [short_name |-> name]

\* str(percent) of an int
IntStr(n) == IF n < 0 THEN <<"-", -n>> ELSE <<n>>

\* round(x) of the float x = (speed - 1.0) * 100, for a speed given in
\* thousandths: the nearest integer; half-way between two integers the float
\* lies a little to one side or to the other, as its binary expansion falls.
Round(tenths) ==
    LET lo == tenths \div 10
        rem == tenths % 10
    IN IF rem < 5 THEN {lo} ELSE IF rem > 5 THEN {lo + 1} ELSE {lo, lo + 1}

\* Mutant of rate_string: the percentage is formatted without the branch that
\* writes the plus sign.
rate_string_plain(speed, percent) ==
    IF speed = 1000 THEN <<"+", 0, "%">> ELSE IntStr(percent) \o <<"%">>

\* The return value of calculate_rate_parameter(speed) when round() gives percent
rate_string(speed, percent) ==
    IF speed = 1000 THEN <<"+", 0, "%">>
    ELSE IF percent > 0 THEN <<"+">> \o IntStr(percent) \o <<"%">>
    ELSE IntStr(percent) \o <<"%">>

\* calculate_rate_parameter(speed): the strings it may return
calculate_rate_parameter(speed) ==
    {rate_string(speed, percent) : percent \in Round(speed - 1000)}

\* get_session_id() for browser b; uuid is the value of str(uuid.uuid4()) if it
\* is called.
get_session_id(b, uuid) == IF session[b] = NoSession THEN uuid ELSE session[b]

\* The values str(uuid.uuid4()) may take when get_session_id() is called for
\* browser b: fresh ones, which no cookie holds; NoSession when it is not called.
Uuids(b) == IF session[b] = NoSession
            THEN Sessions \ {session[o] : o \in Browsers} ELSE {NoSession}

\* Request inputs of the synthesis routes: the 'voice' field (absent, empty, a
\* display name, short names, an identifier no catalog has), the 'speed' field
\* in thousandths and the 'text' field.
Ava == <<"A", "v", "a", " ", "-", " ", "F", "e", "m", "a", "l", "e">>
VoiceArgs == {Missing, <<>>, Ava, ProviderVoices[1].ShortName, <<"z", "z">>}
SpeedArgs == {1004}
TextArgs == {Missing, <<>>, <<"H", "i">>}

\* data.get('text', default)
text_of(text, default) == IF text = Missing THEN default ELSE text

\* 'Hello! This is a preview.', the text of a preview request without 'text'
PreviewText == <<"H", "e", "l", "l", "o", "!">>

\* What the synthesis provider would do with a request, call after call: ""
\* when comm.save() writes the audio, else the message of the exception it raises
ProviderRuns == {<<"", "">>, <<"timeout", "">>}

\* Mutant of run_generate: a call that raised is made a second time.
run_generate_retry(runs) ==
    IF runs[1] = "" THEN [calls |-> 1, error |-> ""] ELSE [calls |-> 2, error |-> runs[2]]

\* asyncio.run(generate()) in the try block of a synthesis handler: the number
\* of calls of the provider, and str(e) of the exception that reaches the
\* handler's except clause ("" when none does)
run_generate(runs) == [calls |-> 1, error |-> runs[1]]

ApiResp(status, error, sid, voice, rate, url, filename) ==
    [status |-> status, error |-> error, sid |-> sid, provider_voice |-> voice,
     rate |-> rate, url |-> url, filename |-> filename, provider_calls |-> 0,
     provider_text |-> Missing]

\* The response of a request that ended before the provider was reached
\* (provider_voice Missing: no call of the provider)
Refused(status, error) == ApiResp(status, error, NoSession, Missing, <<>>, NoUrl, 0)

\* TEMP_FILES[session_id].append(path), after
\* "if session_id not in TEMP_FILES: TEMP_FILES[session_id] = []"
Register(sid, path) ==
    IF sid \in DOMAIN TEMP_FILES
    THEN /\ lists' = [lists EXCEPT ![TEMP_FILES[sid]] = Append(@, path)]
         /\ UNCHANGED TEMP_FILES
    ELSE /\ lists' = Append(lists, <<path>>)
         /\ TEMP_FILES' = DictSet(TEMP_FILES, sid, Len(lists) + 1)

\* Mutant of Synthesis: the temp file is registered after the provider call,
\* which a raising call never reaches.
Synthesis_register_last(op, b, voice, speed, data_text, text, voice_obj) ==
    LET n == Len(created) + 1
        path == Path(n)
    IN /\ n <= MaxFiles
       /\ \E rate \in calculate_rate_parameter(speed), uuid \in Uuids(b),
             runs \in ProviderRuns :
             LET sid == get_session_id(b, uuid)
                 run == run_generate(runs)
                 resp == IF run.error = ""
                         THEN ApiResp(200, "", sid, voice_obj.short_name, rate,
                                      AudioUrl(sid, path),
                                      IF op = "generate" THEN Basename(path) ELSE 0)
                         ELSE ApiResp(500, run.error, sid, voice_obj.short_name,
                                      rate, NoUrl, 0)
             IN
             /\ sid # NoSession
             /\ created' = Append(created, sid)
             /\ disk' = disk \cup {path}
             /\ session' = [session EXCEPT ![b] = sid]
             /\ IF run.error = "" THEN Register(sid, path)
                ELSE UNCHANGED <<lists, TEMP_FILES>>
             /\ providerFailed' = IF run.error = "" THEN providerFailed
                                  ELSE providerFailed \cup {path}
             /\ call' = [op |-> op, arg |-> <<b, voice, speed, data_text, runs>>,
                         res |-> [resp EXCEPT !.provider_calls = run.calls,
                                              !.provider_text = text]]

\* The try block of preview_voice and of generate_speech (app4.py:1713-1736,
\* 1753-1778) for browser b: rate string, temp file, session, registration,
\* provider call, response.
Synthesis(op, b, voice, speed, data_text, text, voice_obj) ==
    LET n == Len(created) + 1
        path == Path(n)
    IN /\ n <= MaxFiles
       /\ \E rate \in calculate_rate_parameter(speed), uuid \in Uuids(b),
             runs \in ProviderRuns :
             LET sid == get_session_id(b, uuid)
                 run == run_generate(runs)
                 resp == IF run.error = ""
                         THEN ApiResp(200, "", sid, voice_obj.short_name, rate,
                                      AudioUrl(sid, path),
                                      IF op = "generate" THEN Basename(path) ELSE 0)
                         ELSE ApiResp(500, run.error, sid, voice_obj.short_name,
                                      rate, NoUrl, 0)
             IN
             /\ sid # NoSession
             /\ created' = Append(created, sid)
             /\ disk' = disk \cup {path}
             /\ session' = [session EXCEPT ![b] = sid]
             /\ Register(sid, path)
             /\ providerFailed' = IF run.error = "" THEN providerFailed
                                  ELSE providerFailed \cup {path}
             /\ call' = [op |-> op, arg |-> <<b, voice, speed, data_text, runs>>,
                         res |-> [resp EXCEPT !.provider_calls = run.calls,
                                              !.provider_text = text]]

\* POST /api/preview from browser b
api_preview(b) ==
    /\ phase = "serving"
    /\ \E voice \in VoiceArgs, speed \in SpeedArgs, text \in TextArgs :
          LET voice_obj == find_voice_by_input(VOICE_DATA, voice) IN
          IF voice_obj = None
          THEN /\ call' = [op |-> "preview", arg |-> <<b, voice, speed, text>>,
                           res |-> Refused(400, "Invalid voice")]
               /\ UNCHANGED <<TEMP_FILES, lists, disk, created, session, providerFailed>>
          ELSE Synthesis("preview", b, voice, speed, text, text_of(text, PreviewText),
                         voice_obj)
    /\ UNCHANGED <<th, todo, purgedOf, everPurged, unlinked, failed, earlier, threaded,
                   VOICE_DATA, LANGUAGE_VOICES, loaded, phase,
                   WHISPER_MODEL>>

\* POST /api/generate from browser b
api_generate(b) ==
    /\ phase = "serving"
    /\ \E voice \in VoiceArgs, speed \in SpeedArgs, text \in TextArgs :
          LET voice_obj == find_voice_by_input(VOICE_DATA, voice) IN
          IF strip(text_of(text, <<>>)) = <<>>
          THEN /\ call' = [op |-> "generate", arg |-> <<b, voice, speed, text>>,
                           res |-> Refused(400, "No text provided")]
               /\ UNCHANGED <<TEMP_FILES, lists, disk, created, session, providerFailed>>
          ELSE IF voice_obj = None
          THEN /\ call' = [op |-> "generate", arg |-> <<b, voice, speed, text>>,
                           res |-> Refused(400, "Invalid voice")]
               /\ UNCHANGED <<TEMP_FILES, lists, disk, created, session, providerFailed>>
          ELSE Synthesis("generate", b, voice, speed, text, strip(text_of(text, <<>>)),
                         voice_obj)
    /\ UNCHANGED <<th, todo, purgedOf, everPurged, unlinked, failed, earlier, threaded,
                   VOICE_DATA, LANGUAGE_VOICES, loaded, phase,
                   WHISPER_MODEL>>

\* Mutant of api_cleanup: the cleanup also drops 'session_id' from the
\* browser's session.
api_cleanup_forget(b) ==
    /\ phase = "serving"
    /\ \E uuid \in Uuids(b) :
          LET sid == get_session_id(b, uuid)
              files == Range(Listed(sid)) \cap disk
          IN /\ sid # NoSession
             /\ session' = [session EXCEPT ![b] = NoSession]
             /\ call' = [op |-> "cleanup", arg |-> <<b>>,
                         res |-> ApiResp(200, "", sid, Missing, <<>>, NoUrl, 0)]
             /\ IF sid \in DOMAIN TEMP_FILES
                THEN \E stuck \in SUBSET files :
                        /\ disk' = disk \ (files \ stuck)
                        /\ unlinked' = unlinked \cup (files \ stuck)
                        /\ failed' = failed \cup stuck
                        /\ TEMP_FILES' = DictDel(TEMP_FILES, sid)
                        /\ purgedOf' = [purgedOf EXCEPT ![sid] = @ \cup Range(Listed(sid))]
                        /\ everPurged' = everPurged \cup {sid}
                ELSE UNCHANGED <<TEMP_FILES, disk, unlinked, failed, purgedOf, everPurged>>
    /\ UNCHANGED <<lists, created, th, todo, earlier, threaded,
                   VOICE_DATA, LANGUAGE_VOICES, loaded, phase,
                   WHISPER_MODEL, providerFailed>>

\* Mutant of api_cleanup: the purge deletes the files and the entries of
\* every session.
api_cleanup_everyone(b) ==
    /\ phase = "serving"
    /\ \E uuid \in Uuids(b) :
          LET sid == get_session_id(b, uuid)
              files == UNION {Range(Listed(s)) : s \in DOMAIN TEMP_FILES} \cap disk
          IN /\ sid # NoSession
             /\ session' = [session EXCEPT ![b] = sid]
             /\ call' = [op |-> "cleanup", arg |-> <<b>>,
                         res |-> ApiResp(200, "", sid, Missing, <<>>, NoUrl, 0)]
             /\ IF sid \in DOMAIN TEMP_FILES
                THEN \E stuck \in SUBSET files :
                        /\ disk' = disk \ (files \ stuck)
                        /\ unlinked' = unlinked \cup (files \ stuck)
                        /\ failed' = failed \cup stuck
                        /\ TEMP_FILES' = EmptyDict
                        /\ purgedOf' = [purgedOf EXCEPT ![sid] = @ \cup Range(Listed(sid))]
                        /\ everPurged' = everPurged \cup {sid}
                ELSE UNCHANGED <<TEMP_FILES, disk, unlinked, failed, purgedOf, everPurged>>
    /\ UNCHANGED <<lists, created, th, todo, earlier, threaded,
                   VOICE_DATA, LANGUAGE_VOICES, loaded, phase,
                   WHISPER_MODEL, providerFailed>>

\* POST /api/cleanup from browser b: get_session_id(), cleanup_temp_files(),
\* {'success': True}.  stuck: the files whose unlink raises.
api_cleanup(b) ==
    /\ phase = "serving"
    /\ \E uuid \in Uuids(b) :
          LET sid == get_session_id(b, uuid)
              files == Range(Listed(sid)) \cap disk
          IN /\ sid # NoSession
             /\ session' = [session EXCEPT ![b] = sid]
             /\ call' = [op |-> "cleanup", arg |-> <<b>>,
                         res |-> ApiResp(200, "", sid, Missing, <<>>, NoUrl, 0)]
             /\ IF sid \in DOMAIN TEMP_FILES
                THEN \E stuck \in SUBSET files :
                        /\ disk' = disk \ (files \ stuck)
                        /\ unlinked' = unlinked \cup (files \ stuck)
                        /\ failed' = failed \cup stuck
                        /\ TEMP_FILES' = DictDel(TEMP_FILES, sid)
                        /\ purgedOf' = [purgedOf EXCEPT ![sid] = @ \cup Range(Listed(sid))]
                        /\ everPurged' = everPurged \cup {sid}
                ELSE UNCHANGED <<TEMP_FILES, disk, unlinked, failed, purgedOf, everPurged>>
    /\ UNCHANGED <<lists, created, th, todo, earlier, threaded,
                   VOICE_DATA, LANGUAGE_VOICES, loaded, phase,
                   WHISPER_MODEL, providerFailed>>

\* The catalogs of the API runs: the fallback catalog, and a live one in which
\* two voices of the provider share their display name.
ApiCatalogs ==
    {Offline,
     load_voices(TRUE, FALSE, <<ProviderVoices[1], ProviderVoices[2], ProviderVoices[3]>>)}

\* The application is imported (initialize_app has loaded one of the catalogs)
\* and serves one request at a time.
InitApi ==
    /\ InitState
    /\ threaded = FALSE
    /\ \E c \in ApiCatalogs : /\ VOICE_DATA = c.VOICE_DATA
                              /\ LANGUAGE_VOICES = c.LANGUAGE_VOICES
                              /\ loaded = c.all_voices
    /\ session = [b \in Browsers |-> NoSession]
    /\ phase = "serving"
    /\ call = NoCall
    /\ WHISPER_MODEL = None

NextApi == \E b \in Browsers : api_preview(b) \/ api_generate(b) \/ api_cleanup(b)

SpecApi == InitApi /\ [][NextApi]_vars

\* C11: a call of get_session_id by a browser without an identifier stores a
\* fresh one; a browser that has an identifier keeps it through every request,
\* cleanup included, and every request that calls get_session_id works under
\* the identifier the browser's store holds afterwards.
C11_SessionIdStable ==
    [][\A b \in Browsers :
          /\ session[b] # NoSession => session'[b] = session[b]
          /\ (session[b] = NoSession /\ session'[b] # NoSession)
                => \A o \in Browsers : session[o] # session'[b]
          /\ (call'.arg[1] = b /\ call'.res.sid # NoSession)
                => call'.res.sid = session'[b]]_vars

\* C11 witness: a browser that was given an identifier by one request has
\* just run a cleanup under that identifier, and still holds it.
C11_Witness ==
    \E b \in Browsers :
       /\ call.op = "cleanup" /\ call.arg[1] = b
       /\ session[b] \in everPurged /\ call.res.sid = session[b]

\* The voice input matches a descriptor of the catalog, by display name or by
\* short identifier.
Resolves(name) ==
    \E i \in 1..Len(VOICE_DATA) :
       VOICE_DATA[i].display_name = name \/ VOICE_DATA[i].short_name = name

\* The short identifier the input names: that of the descriptor with this
\* display name, and otherwise the input itself (a short identifier, of the
\* catalog or not).
NamedVoice(name) ==
    IF \E i \in 1..Len(VOICE_DATA) : VOICE_DATA[i].display_name = name
    THEN VOICE_DATA[CHOOSE i \in 1..Len(VOICE_DATA) :
                       VOICE_DATA[i].display_name = name].short_name
    ELSE name

SynthesisOps == {"preview", "generate"}

\* C14 as claimed: a synthesis request whose voice matches no descriptor of the
\* catalog ends in an error result, and the provider is called, if at all, with
\* the short identifier of the catalog descriptor the input matches.
C14_UnresolvedIsError ==
    call.op \in SynthesisOps =>
       /\ ~Resolves(call.arg[2]) => call.res.status # 200
       /\ call.res.provider_voice # Missing =>
             /\ Resolves(call.arg[2])
             /\ call.res.provider_voice = NamedVoice(call.arg[2])

\* C14 as amended: a synthesis request without a voice, or with an empty one,
\* is refused with 400 and the provider is not called; any other voice reaches
\* the provider as the short identifier of the descriptor with that display
\* name or, when there is none, as the input itself, matched or not; and no
\* request succeeds without the provider having been called with that voice.
C14_VoiceAsNamed ==
    call.op \in SynthesisOps =>
       LET voice == call.arg[2] IN
       /\ (voice = Missing \/ voice = <<>>) =>
             /\ call.res.status = 400
             /\ call.res.provider_voice = Missing
       /\ call.res.provider_voice # Missing =>
             /\ voice # Missing /\ voice # <<>>
             /\ call.res.provider_voice = NamedVoice(voice)
             /\ call.res.status \in {200, 500}
       /\ call.res.status = 200 => call.res.provider_voice # Missing

\* C14 witness: a request naming a voice that the catalog does not have has
\* been answered with the audio the provider made for that very identifier.
C14_Witness ==
    /\ call.op \in SynthesisOps
    /\ ~Resolves(call.arg[2])
    /\ call.res.status = 200
    /\ call.res.provider_voice = call.arg[2]

\* ============================================================ the catalog
\* What edge_tts.list_voices() may return: up to MaxVoices of the provider's
\* voices, each at most once, in any order.
ProviderLists ==
    LET N == Len(ProviderVoices)
        picks == UNION {[1..n -> 1..N] : n \in 0..MaxVoices}
    IN {[i \in DOMAIN f |-> ProviderVoices[f[i]]] :
           f \in {g \in picks : \A i, j \in DOMAIN g : g[i] = g[j] => i = j}}

\* The module is being imported: the tables are empty dicts (app4.py:27-28).
InitVoices ==
    /\ InitState
    /\ threaded = FALSE
    /\ VOICE_DATA = <<>>
    /\ LANGUAGE_VOICES = <<>>
    /\ loaded = <<>>
    /\ session = [b \in Browsers |-> NoSession]
    /\ phase = "import"
    /\ call = NoCall
    /\ WHISPER_MODEL = None

\* network_ok = initialize_app() at import: asyncio.run(load_voices()), the
\* report, return True.
initialize_app ==
    /\ phase = "import"
    /\ \E network \in BOOLEAN, raises \in BOOLEAN, voices \in ProviderLists :
          /\ ~network => ~raises
          /\ (~network \/ raises) => voices = <<>>
          /\ LET r == load_voices(network, raises, voices) IN
             /\ VOICE_DATA' = r.VOICE_DATA
             /\ LANGUAGE_VOICES' = r.LANGUAGE_VOICES
             /\ loaded' = r.all_voices
             /\ call' = [op |-> "initialize_app", arg |-> <<network, raises, voices>>,
                         res |-> [ret |-> TRUE, success |-> r.ret,
                                  list_voices_calls |-> r.list_voices_calls]]
    /\ phase' = "serving"
    /\ UNCHANGED <<TEMP_FILES, lists, disk, created, th, todo, purgedOf, everPurged,
                   unlinked, failed, earlier, threaded, session,
                   WHISPER_MODEL, providerFailed>>

\* list(d.keys()) of LANGUAGE_VOICES
keys(groups) == [i \in 1..Len(groups) |-> groups[i].language]

\* Mutant of offline_mode: only a catalog without any language counts as offline.
offline_mode_empty(groups) == Len(groups) = 0

\* offline_mode = len(LANGUAGE_VOICES) <= 3
offline_mode(groups) == Len(groups) <= 3

\* GET /api/voices
get_voices ==
    /\ phase = "serving"
    /\ call' = [op |-> "get_voices", arg |-> <<>>,
                res |-> [languages |-> keys(LANGUAGE_VOICES),
                         voices |-> LANGUAGE_VOICES,
                         total_voices |-> Len(VOICE_DATA),
                         offline_mode |-> offline_mode(LANGUAGE_VOICES)]]
    /\ UNCHANGED <<TEMP_FILES, lists, disk, created, th, todo, purgedOf, everPurged,
                   unlinked, failed, earlier, threaded,
                   VOICE_DATA, LANGUAGE_VOICES, loaded, session, phase,
                   WHISPER_MODEL, providerFailed>>

\* LANGUAGE_VOICES.get(language, [])
group_of(groups, language) ==
    IF \E i \in 1..Len(groups) : groups[i].language = language
    THEN groups[CHOOSE i \in 1..Len(groups) : groups[i].language = language].voices
    ELSE <<>>

\* The loop of filter_voices over source_voices: voice passes the two tests.
Kept(voice, gender, search) ==
    /\ ~(gender # All /\ voice.gender # gender)
    /\ ~(search # <<>> /\ ~contains(search, lower(voice.display_name)))

\* Mutant of filter_voices_result: the search string is compared as it is
\* typed, with its capitals.
filter_voices_exact(language, gender, raw) ==
    LET search == strip(raw)
        source_voices == IF language = All THEN VOICE_DATA
                         ELSE group_of(LANGUAGE_VOICES, language)
        keep(voice) == Kept(voice, gender, search)
    IN SelectSeq(source_voices, keep)

\* The list filter_voices answers with for the query parameters language,
\* gender and search (raw: the parameter as it was sent).
filter_voices_result(language, gender, raw) ==
    LET search == strip(lower(raw))
        source_voices == IF language = All THEN VOICE_DATA
                         ELSE group_of(LANGUAGE_VOICES, language)
        keep(voice) == Kept(voice, gender, search)
    IN SelectSeq(source_voices, keep)

\* Query parameters: a language the catalog may have or not, a gender or none,
\* and no search, a search in small letters and one in capitals with blanks
\* around it.
LanguageArgs == {All, English, <<"F", "r", "e", "n", "c", "h">>, <<"E", "l", "v", "i", "s", "h">>}
GenderArgs == {All, Female}
SearchArgs == {<<>>, <<"a", "v", "a">>, <<" ", "A", "V", "A", " ">>}

\* GET /api/filter_voices
filter_voices ==
    /\ phase = "serving"
    /\ \E language \in LanguageArgs, gender \in GenderArgs, search \in SearchArgs :
          call' = [op |-> "filter_voices", arg |-> <<language, gender, search>>,
                   res |-> filter_voices_result(language, gender, search)]
    /\ UNCHANGED <<TEMP_FILES, lists, disk, created, th, todo, purgedOf, everPurged,
                   unlinked, failed, earlier, threaded,
                   VOICE_DATA, LANGUAGE_VOICES, loaded, session, phase,
                   WHISPER_MODEL, providerFailed>>

\* The names looked up: none, an empty one, display names, short names and an
\* identifier that no catalog has.
LookupArgs == {Missing, <<>>, Ava, Guy.short_name, ProviderVoices[1].ShortName,
               <<"z", "z">>}

\* voice_obj = find_voice_by_input(voice_input)
lookup ==
    /\ phase = "serving"
    /\ \E name \in LookupArgs :
          call' = [op |-> "find_voice_by_input", arg |-> <<name>>,
                   res |-> find_voice_by_input(VOICE_DATA, name)]
    /\ UNCHANGED <<TEMP_FILES, lists, disk, created, th, todo, purgedOf, everPurged,
                   unlinked, failed, earlier, threaded,
                   VOICE_DATA, LANGUAGE_VOICES, loaded, session, phase,
                   WHISPER_MODEL, providerFailed>>

NextVoices == initialize_app \/ get_voices \/ filter_voices \/ lookup

SpecVoices == InitVoices /\ [][NextVoices]_vars

\* What the lookup of name in the table vd is to answer: nothing for no name,
\* the descriptor under that display name, else the first descriptor with that
\* short identifier, else a descriptor made of the identifier alone.
LookupAnswer(vd, name, res) ==
    IF name = Missing \/ name = <<>> THEN res = None
    ELSE IF \E i \in 1..Len(vd) : vd[i].display_name = name
    THEN \E i \in 1..Len(vd) : vd[i].display_name = name /\ res = vd[i]
    ELSE IF \E i \in 1..Len(vd) : vd[i].short_name = name
    THEN \E i \in 1..Len(vd) :
            /\ vd[i].short_name = name /\ res = vd[i]
            /\ \A j \in 1..(i - 1) : vd[j].short_name # name
    ELSE DOMAIN res = {"short_name"} /\ res.short_name = name

\* C15: find_voice_by_input answers as LookupAnswer says, for every catalog the
\* loader builds, and leaves both tables of the catalog as they are.
C15_LookupAnswer ==
    [][call'.op = "find_voice_by_input" =>
          /\ LookupAnswer(VOICE_DATA, call'.arg[1], call'.res)
          /\ UNCHANGED <<VOICE_DATA, LANGUAGE_VOICES>>]_vars

\* C15 witness: in a live catalog, an identifier that matches nothing has been
\* answered with the descriptor made of it alone.
C15_Witness ==
    /\ call.op = "find_voice_by_input"
    /\ call.arg[1] = <<"z", "z">>
    /\ call.res = [short_name |-> <<"z", "z">>]
    /\ Len(VOICE_DATA) > 2

\* The number of times x occurs in the list l
Count(l, x) == Cardinality({i \in 1..Len(l) : l[i] = x})

\* No search is asked for: the parameter is empty once it is trimmed.
NoSearch(raw) == strip(raw) = <<>>

\* C16: the unfiltered query (language All, gender All, no search) answers with
\* every descriptor the loader has built, each of them once.
C16_AllListedOnce ==
    (/\ call.op = "filter_voices"
     /\ call.arg[1] = All /\ call.arg[2] = All /\ NoSearch(call.arg[3]))
    => /\ \A i \in 1..Len(loaded) : Count(call.res, loaded[i]) = 1
       /\ Len(call.res) = Len(loaded)

\* The three tests of the filter on a descriptor, as the contract words them;
\* search is a parameter without blanks around it.
Matches(voice, language, gender, search) ==
    /\ language = All \/ voice.language = language
    /\ gender = All \/ voice.gender = gender
    /\ search = <<>> \/ contains(lower(search), lower(voice.display_name))

\* The descriptors of the list l that pass the three tests, in the order of l
Matching(l, language, gender, search) ==
    LET pass(voice) == Matches(voice, language, gender, search) IN SelectSeq(l, pass)

\* C17: a query whose search has no blanks around it is answered with the
\* descriptors that pass the three tests, in the order the catalog was built:
\* none for a language the catalog has not, and "Ava - Female" for "ava".
C17_FilterAnswer ==
    (/\ call.op = "filter_voices"
     /\ strip(call.arg[3]) = call.arg[3])
    => call.res = Matching(loaded, call.arg[1], call.arg[2], call.arg[3])

\* The catalog is the built-in fallback set and nothing else.
FallbackOnly ==
    /\ LANGUAGE_VOICES = get_fallback_voices
    /\ VOICE_DATA = <<Jenny, Guy>>

\* C18: with the fallback set as the catalog, /api/voices reports offline_mode
\* true, the number of the fallback voices and the fallback languages.
C18_FallbackIsOffline ==
    (call.op = "get_voices" /\ FallbackOnly)
    => /\ call.res.offline_mode = TRUE
       /\ call.res.total_voices = Len(values_of(get_fallback_voices, Len(get_fallback_voices)))
       /\ call.res.languages = <<English>>
       /\ call.res.voices = get_fallback_voices

\* C18 witness: /api/voices has answered on the fallback catalog.
C18_Witness ==
    /\ call.op = "get_voices" /\ FallbackOnly
    /\ call.res.offline_mode /\ call.res.total_voices = 2

\* C19: /api/voices reports offline_mode true exactly when the catalog has no
\* more voices than the fallback set.
C19_OfflineBySize ==
    call.op = "get_voices" =>
       call.res.offline_mode =
          (call.res.total_voices <= Len(values_of(get_fallback_voices,
                                                  Len(get_fallback_voices))))

\* C20: load_voices reports success and calls the provider at most once; without
\* network it does not call it at all, and then, as when the one call raises,
\* both tables hold the fallback catalog; initialize_app returns True.
C20_LoadNeverFails ==
    call.op = "initialize_app" =>
       LET network == call.arg[1]
           raises == call.arg[2]
       IN /\ call.res.ret = TRUE
          /\ call.res.success = TRUE
          /\ call.res.list_voices_calls = IF network THEN 1 ELSE 0
          /\ (~network \/ raises) => FallbackOnly
          /\ phase = "serving"

\* C20 witness: the provider call raised and the application is serving the
\* fallback catalog.
C20_Witness ==
    /\ call.op = "initialize_app"
    /\ call.arg[1] /\ call.arg[2]
    /\ FallbackOnly /\ phase = "serving"

\* ================================================= calculate_rate_parameter
\* The speeds of the rate runs, in thousandths: 1.0 and up to MaxDeviation
\* thousandths below and above it, but for the speeds half-way between two
\* whole percentages, where the result hangs on the last bit of the float.
Speeds == {m \in (1000 - MaxDeviation)..(1000 + MaxDeviation) : (m - 1000) % 10 # 5}

\* A caller is about to convert one of the speeds.
InitRate ==
    /\ InitState /\ ApiIdle
    /\ threaded = FALSE
    /\ WHISPER_MODEL = None
    /\ \E speed \in Speeds : call = [op |-> "speed", arg |-> <<speed>>, res |-> None]

\* rate = calculate_rate_parameter(speed)
rate_call ==
    /\ call.op = "speed"
    /\ \E rate \in calculate_rate_parameter(call.arg[1]) :
          call' = [op |-> "calculate_rate_parameter", arg |-> call.arg, res |-> rate]
    /\ UNCHANGED <<TEMP_FILES, lists, disk, created, th, todo, purgedOf, everPurged,
                   unlinked, failed, earlier, threaded,
                   VOICE_DATA, LANGUAGE_VOICES, loaded, session, phase,
                   WHISPER_MODEL, providerFailed>>

SpecRate == InitRate /\ [][rate_call]_vars

\* C12: a speed of 1 + p/100 for an integer p is converted to "+0%" when p = 0,
\* to "+p%" when p > 0 and to "-|p|%" when p < 0, whichever way the call is
\* taken; so 1.0 gives "+0%", 1.25 gives "+25%" and 0.9 gives "-10%".
C12_RateOfWholePercent ==
    call.op = "calculate_rate_parameter" =>
       LET speed == call.arg[1]
           p == (speed - 1000) \div 10
       IN /\ (speed - 1000) % 10 = 0 =>
                call.res = IF p = 0 THEN <<"+", 0, "%">>
                           ELSE IF p > 0 THEN <<"+", p, "%">>
                           ELSE <<"-", -p, "%">>
          /\ speed = 1000 => call.res = <<"+", 0, "%">>
          /\ speed = 1250 => call.res = <<"+", 25, "%">>
          /\ speed = 900 => call.res = <<"-", 10, "%">>

\* C12 witness: the speed 0.9 has been converted to "-10%".
C12_Witness ==
    /\ call.op = "calculate_rate_parameter"
    /\ call.arg[1] = 900 /\ call.res = <<"-", 10, "%">>

\* C13: every rate string is signed: a plus or a minus sign, the digits of the
\* rounded percentage, and the percent sign.
C13_RateSigned ==
    call.op = "calculate_rate_parameter" =>
       /\ Len(call.res) = 3
       /\ call.res[1] \in {"+", "-"}
       /\ call.res[2] \in Nat
       /\ call.res[3] = "%"

\* ================================================ catalog reload under requests
\* load_voices() is run again (a refresh of the catalog) on one thread of the
\* threaded server while another thread answers GET /api/voices.  The
\* coroutine installs its tables with two assignments (app4.py:81-82, 123-124,
\* 132-133); the handler reads the globals one after the other.

\* What the provider lists at a refresh
ReloadLists == {l \in ProviderLists : Len(l) <= 1}

\* load_voices() up to and including "LANGUAGE_VOICES = ..."
reload_languages ==
    /\ phase = "serving"
    /\ \E network \in BOOLEAN, raises \in BOOLEAN, voices \in ReloadLists :
          /\ ~network => ~raises
          /\ (~network \/ raises) => voices = <<>>
          /\ LET r == load_voices(network, raises, voices) IN
             /\ LANGUAGE_VOICES' = r.LANGUAGE_VOICES
             /\ loaded' = r.all_voices
    /\ phase' = "reloading"
    /\ UNCHANGED <<TEMP_FILES, lists, disk, created, th, todo, purgedOf, everPurged,
                   unlinked, failed, earlier, threaded, VOICE_DATA, session, call,
                   WHISPER_MODEL, providerFailed>>

\* "VOICE_DATA = {v['display_name']: v for v in all_voices}" and the return
reload_voice_data ==
    /\ phase = "reloading"
    /\ VOICE_DATA' = by_display_name(loaded, Len(loaded))
    /\ phase' = "serving"
    /\ UNCHANGED <<TEMP_FILES, lists, disk, created, th, todo, purgedOf, everPurged,
                   unlinked, failed, earlier, threaded, LANGUAGE_VOICES, loaded, session,
                   call, WHISPER_MODEL, providerFailed>>

\* A GET /api/voices is being answered: call.arg names the next read of the handler
Reading(step) == call.op = "get_voices" /\ call.arg = <<step>>

\* The frame of the steps of the reading handler
ReaderFrame ==
    UNCHANGED <<TEMP_FILES, lists, disk, created, th, todo, purgedOf, everPurged,
                unlinked, failed, earlier, threaded, VOICE_DATA, LANGUAGE_VOICES,
                loaded, session, phase, WHISPER_MODEL, providerFailed>>

\* get_voices: offline_mode = len(LANGUAGE_VOICES) <= 3
read_offline_mode ==
    /\ ~(call.op = "get_voices" /\ call.arg # <<>>)
    /\ call' = [op |-> "get_voices", arg |-> <<"languages">>,
                res |-> [languages |-> <<>>, voices |-> <<>>, total_voices |-> 0,
                         offline_mode |-> offline_mode(LANGUAGE_VOICES)]]
    /\ ReaderFrame

\* get_voices: 'languages': list(LANGUAGE_VOICES.keys())
read_languages ==
    /\ Reading("languages")
    /\ call' = [call EXCEPT !.arg = <<"voices">>,
                            !.res.languages = keys(LANGUAGE_VOICES)]
    /\ ReaderFrame

\* get_voices: 'voices': LANGUAGE_VOICES
read_voices ==
    /\ Reading("voices")
    /\ call' = [call EXCEPT !.arg = <<"total_voices">>, !.res.voices = LANGUAGE_VOICES]
    /\ ReaderFrame

\* get_voices: 'total_voices': len(VOICE_DATA), and the response is sent
read_total_voices ==
    /\ Reading("total_voices")
    /\ call' = [call EXCEPT !.arg = <<>>, !.res.total_voices = Len(VOICE_DATA)]
    /\ ReaderFrame

NextReload ==
    \/ reload_languages \/ reload_voice_data
    \/ read_offline_mode \/ read_languages \/ read_voices \/ read_total_voices

SpecReload == Init /\ [][NextReload]_vars

\* The answer of GET /api/voices describes one catalog: its languages and its
\* offline flag are those of its groups, and its total is the size of the
\* display-name table built from the descriptors of its groups.
OneVersion(res) ==
    LET vs == values_of(res.voices, Len(res.voices)) IN
    /\ res.languages = keys(res.voices)
    /\ res.offline_mode = offline_mode(res.voices)
    /\ res.total_voices = Len(by_display_name(vs, Len(vs)))

WhisperModel == [none |-> FALSE]

\* request.files: no 'audio' field (Missing), a file with an empty filename,
\* a named file
AudioArgs == {Missing, <<>>, <<"a", ".", "m", "p", "3">>}

\* A segment of the engine's result
Segment(start, text) == [start |-> start, text |-> text]

\* What WHISPER_MODEL.transcribe() and the reading of its segments would do:
\* raise an exception with message error, or (error "") yield the segments.
\* Starts are int(segment.start), in seconds.
EngineRuns ==
    {[error |-> "decode", segments |-> <<>>],
     [error |-> "", segments |-> <<>>],
     [error |-> "", segments |-> <<Segment(5, <<" ", "a", " ">>)>>],
     [error |-> "", segments |-> <<Segment(59, <<"a">>), Segment(3661, <<"b", " ">>)>>]}

\* str(timedelta(seconds=n)) for n below a day: H:MM:SS
timedelta(n) ==
    LET h == n \div 3600
        m == (n % 3600) \div 60
        sec == n % 60
    IN IntStr(h) \o <<":">> \o <<m \div 10, m % 10>> \o <<":">> \o <<sec \div 10, sec % 10>>

\* f"{timestamp} {segment.text.strip()}" with timestamp = f"[{start_time}]"
transcript_part(segment) ==
    <<"[">> \o timedelta(segment.start) \o <<"]", " ">> \o strip(segment.text)

\* '\n'.join(parts[1..n])
RECURSIVE join(_, _)
join(parts, n) ==
    IF n = 0 THEN <<>>
    ELSE IF n = 1 THEN parts[1]
    ELSE join(parts, n - 1) \o <<"\n">> \o parts[n]

\* transcript after the loop over the segments
transcript_of(segments) ==
    join([i \in 1..Len(segments) |-> transcript_part(segments[i])], Len(segments))

\* A response of a transcription route: the HTTP status, the JSON body and
\* what became of the temp file of the request ("none": not created,
\* "deleted", "left")
TrResp(engine, transcript, full_text, temp) ==
    [status |-> 200,
     body |-> [success |-> TRUE, engine |-> engine, transcript |-> transcript,
               full_text |-> full_text],
     temp |-> temp]

TrError(status, error, temp) == [status |-> status, body |-> [error |-> error], temp |-> temp]

\* Mutant of transcribe_upload_response: the engine check comes first, so
\* that without an engine every request gets the placeholder.
transcribe_upload_mock_first(audio, model, run) ==
    IF model = None
    THEN TrResp("Mock Engine",
                "This is a mock transcription. Install whisper engines for real transcription.",
                "Mock transcription text", "none")
    ELSE IF audio = Missing THEN TrError(400, "No audio file provided", "none")
    ELSE IF audio = <<>> THEN TrError(400, "No file selected", "none")
    ELSE IF run.error # "" THEN TrError(500, run.error, "left")
    ELSE TrResp("Faster Whisper", transcript_of(run.segments),
                transcript_of(run.segments), "deleted")

\* transcribe_upload() for a request with file field audio, WHISPER_MODEL =
\* model and an engine that does run
transcribe_upload_response(audio, model, run) ==
    IF audio = Missing THEN TrError(400, "No audio file provided", "none")
    ELSE IF audio = <<>> THEN TrError(400, "No file selected", "none")
    ELSE IF model = None
    THEN TrResp("Mock Engine",
                "This is a mock transcription. Install whisper engines for real transcription.",
                "Mock transcription text", "none")
    ELSE IF run.error # "" THEN TrError(500, run.error, "left")
    ELSE TrResp("Faster Whisper", transcript_of(run.segments),
                transcript_of(run.segments), "deleted")

\* Mutant of transcribe_generated_response: the route accepts a file without
\* a name.
transcribe_generated_unnamed(audio, model, run) ==
    IF audio = Missing THEN TrError(400, "No audio file provided", "none")
    ELSE IF model = None
    THEN TrResp("Mock Engine",
                "This is a mock transcription of your generated audio. Install whisper engines for real transcription.",
                "Mock transcription of generated audio", "none")
    ELSE IF run.error # "" THEN TrError(500, run.error, "left")
    ELSE TrResp("Faster Whisper", transcript_of(run.segments),
                transcript_of(run.segments), "deleted")

\* transcribe_generated(), likewise
transcribe_generated_response(audio, model, run) ==
    IF audio = Missing THEN TrError(400, "No audio file provided", "none")
    ELSE IF audio = <<>> THEN TrError(400, "No file selected", "none")
    ELSE IF model = None
    THEN TrResp("Mock Engine",
                "This is a mock transcription of your generated audio. Install whisper engines for real transcription.",
                "Mock transcription of generated audio", "none")
    ELSE IF run.error # "" THEN TrError(500, run.error, "left")
    ELSE TrResp("Faster Whisper", transcript_of(run.segments),
                transcript_of(run.segments), "deleted")

\* The effect of a transcription request with response resp on the temp
\* directory: tempfile.NamedTemporaryFile(delete=False), os.unlink
TempEffect(resp) ==
    LET n == Len(created) + 1 IN
    IF resp.temp = "none" THEN UNCHANGED <<created, disk>>
    ELSE /\ n <= MaxFiles
         /\ created' = Append(created, NoSession)
         /\ disk' = IF resp.temp = "left" THEN disk \cup {Path(n)} ELSE disk

\* What a transcription request leaves alone
TrFrame ==
    UNCHANGED <<TEMP_FILES, lists, th, todo, purgedOf, everPurged, unlinked, failed,
                earlier, threaded, VOICE_DATA, LANGUAGE_VOICES, loaded, session, phase,
                WHISPER_MODEL, providerFailed>>

\* POST /api/transcribe_upload
transcribe_upload ==
    /\ phase = "serving"
    /\ \E audio \in AudioArgs, run \in EngineRuns :
          LET resp == transcribe_upload_response(audio, WHISPER_MODEL, run) IN
          /\ call' = [op |-> "transcribe_upload", arg |-> <<audio, run>>, res |-> resp]
          /\ TempEffect(resp)
    /\ TrFrame

\* POST /api/transcribe_generated
transcribe_generated ==
    /\ phase = "serving"
    /\ \E audio \in AudioArgs, run \in EngineRuns :
          LET resp == transcribe_generated_response(audio, WHISPER_MODEL, run) IN
          /\ call' = [op |-> "transcribe_generated", arg |-> <<audio, run>>, res |-> resp]
          /\ TempEffect(resp)
    /\ TrFrame

\* The application is imported, with or without the engine, on the fallback
\* catalog, and serves one request at a time.
InitTranscribe ==
    /\ InitState /\ ApiIdle
    /\ threaded = FALSE
    /\ call = NoCall
    /\ WHISPER_MODEL \in {None, WhisperModel}

NextTranscribe ==
    \/ transcribe_upload
    \/ transcribe_generated
    \/ \E b \in Browsers : api_generate(b)

SpecTranscribe == InitTranscribe /\ [][NextTranscribe]_vars

TranscribeOps == {"transcribe_upload", "transcribe_generated"}

\* The body of a response reports success / an error
Succeeds(res) == DOMAIN res.body = {"success", "engine", "transcript", "full_text"}
Fails(res) == DOMAIN res.body = {"error"}

\* C22 as claimed: without an engine every POST /api/transcribe_upload is
\* answered with success and engine "Mock Engine", whatever it carries.
C22_AlwaysMock ==
    (call.op = "transcribe_upload" /\ WHISPER_MODEL = None)
    => /\ call.res.status = 200
       /\ Succeeds(call.res)
       /\ call.res.body.engine = "Mock Engine"

\* C22: without an engine, a POST /api/transcribe_upload that carries a named
\* audio file is answered 200 with success, engine "Mock Engine" and the
\* placeholder texts, and never with an error; one without an 'audio' field or
\* with an empty filename is answered 400 with an error.  In neither case is
\* a temp file created.
C22_MockWhenUploadNamed ==
    (call.op = "transcribe_upload" /\ WHISPER_MODEL = None)
    => LET audio == call.arg[1]
           res == call.res
       IN /\ res.temp = "none"
          /\ audio \notin {Missing, <<>>}
                => /\ res.status = 200 /\ Succeeds(res)
                   /\ res.body.success = TRUE
                   /\ res.body.engine = "Mock Engine"
          /\ audio \in {Missing, <<>>} => res.status = 400 /\ Fails(res)

\* C22 witness: without an engine a named upload got the placeholder answer.
C22_Witness ==
    /\ call.op = "transcribe_upload" /\ WHISPER_MODEL = None
    /\ call.arg[1] \notin {Missing, <<>>}
    /\ call.res.status = 200 /\ Succeeds(call.res)
    /\ call.res.body.engine = "Mock Engine"

\* What each of the two routes answers to the request and engine run of the
\* last transcription call
UploadAnswer == transcribe_upload_response(call.arg[1], WHISPER_MODEL, call.arg[2])
GeneratedAnswer == transcribe_generated_response(call.arg[1], WHISPER_MODEL, call.arg[2])

\* C23 as claimed: for the same request and the same engine state the two
\* transcription routes give the same status, the same body and the same
\* effect on the temp file.
C23_SameResponse ==
    call.op \in TranscribeOps => UploadAnswer = GeneratedAnswer

\* C23: for the same request and the same engine state the two transcription
\* routes give the same status, bodies with the same fields, the same success
\* flag, engine name and error message, and the same effect on the temp file;
\* with an engine loaded the bodies are equal.  Without an engine the two
\* placeholder answers differ in 'transcript' and 'full_text' only.
C23_SameButPlaceholder ==
    call.op \in TranscribeOps
    => LET u == UploadAnswer
           g == GeneratedAnswer
       IN /\ call.res = IF call.op = "transcribe_upload" THEN u ELSE g
          /\ u.status = g.status
          /\ u.temp = g.temp
          /\ DOMAIN u.body = DOMAIN g.body
          /\ Fails(u) => u.body.error = g.body.error
          /\ Succeeds(u) => /\ u.body.success = g.body.success
                            /\ u.body.engine = g.body.engine
          /\ (WHISPER_MODEL # None \/ Fails(u)) => u = g

\* C23 witness: with the engine loaded, /api/transcribe_generated has answered
\* a named upload with the transcript of two segments.
C23_Witness ==
    /\ call.op = "transcribe_generated" /\ WHISPER_MODEL = WhisperModel
    /\ call.res.status = 200 /\ Succeeds(call.res)
    /\ Len(call.arg[2].segments) = 2
    /\ call.res.body.transcript =
          <<"[", 0, ":", 0, 0, ":", 5, 9, "]", " ", "a", "\n",
            "[", 1, ":", 0, 1, ":", 0, 1, "]", " ", "b">>

\* C28: a transcription request leaves no temp file behind, whether the engine
\* succeeds or raises, and neither adds to nor removes from TEMP_FILES.
C28_TranscriptionLeavesNothing ==
    [][call'.op \in TranscribeOps
          => /\ disk' = disk
             /\ TEMP_FILES' = TEMP_FILES
             /\ lists' = lists]_vars

\* ==================================================== errors of the synthesis routes
\* The 'text' field of a synthesis request is missing or empty
NoText(text) == text = Missing \/ strip(text) = <<>>

\* The 'voice' field of a synthesis request is missing or empty: the lookup
\* returns None
NoVoice(voice) == find_voice_by_input(VOICE_DATA, voice) = None

\* C24: a preview or generate request without text, or whose voice the lookup
\* cannot resolve, is refused with a 400 response that carries an error.
C24_ValidationRefused ==
    (call.op \in SynthesisOps /\ (NoText(call.arg[4]) \/ NoVoice(call.arg[2])))
    => /\ call.res.status = 400
       /\ call.res.error # ""
       /\ call.res.provider_calls = 0

\* C25: a preview or generate request calls the provider at most once; when
\* that call raises, the request is answered 500 with the message of the
\* provider's exception as its error, and the provider is not called again.
C25_ProviderOnce ==
    call.op \in SynthesisOps
    => /\ call.res.provider_calls <= 1
       /\ call.res.provider_calls = 0 => call.res.status = 400
       /\ call.res.provider_calls = 1
             => LET raised == call.arg[5][1] IN
                /\ raised # "" => /\ call.res.status = 500
                                  /\ call.res.error = raised
                                  /\ call.res.url = NoUrl
                /\ raised = "" => call.res.status = 200 /\ call.res.error = ""

\* C25 witness: the provider raised "timeout" in a generate request, which was
\* answered 500 with that message after the one call.
C25_Witness ==
    /\ call.op = "generate"
    /\ call.res.provider_calls = 1
    /\ call.res.status = 500 /\ call.res.error = "timeout"
    /\ call.arg[5] = <<"timeout", "">>

\* ========================================================== requests and shutdown
\* The atexit hook cleanup_all() (app4.py:1894-1898) after the requests of
\* SpecApi: cleanup_temp_files for every key of TEMP_FILES.  stuck: the files
\* whose unlink raises.
api_cleanup_all ==
    /\ phase = "serving"
    /\ LET keys_ == DOMAIN TEMP_FILES
           files == UNION {Range(Listed(s)) : s \in keys_} \cap disk
       IN \E stuck \in SUBSET files :
             /\ disk' = disk \ (files \ stuck)
             /\ unlinked' = unlinked \cup (files \ stuck)
             /\ failed' = failed \cup stuck
             /\ TEMP_FILES' = EmptyDict
             /\ purgedOf' = [s \in Sessions |->
                                IF s \in keys_ THEN purgedOf[s] \cup Range(Listed(s))
                                ELSE purgedOf[s]]
             /\ everPurged' = everPurged \cup keys_
    /\ phase' = "exited"
    /\ call' = [op |-> "cleanup_all", arg |-> <<>>, res |-> <<>>]
    /\ UNCHANGED <<lists, created, th, todo, earlier, threaded, VOICE_DATA,
                   LANGUAGE_VOICES, loaded, session, WHISPER_MODEL, providerFailed>>

NextShutdown == NextApi \/ api_cleanup_all

SpecShutdown == InitApi /\ [][NextShutdown]_vars

\* The session under which the temp file p was created
OwnerOf(p) == created[p[2]]

C26_WitnessShutdown ==
    /\ call.op = "cleanup_all"
    /\ \E p \in providerFailed : p \in unlinked /\ p \notin disk

\* C27: a /api/cleanup of session A leaves the entry, the list and the files of
\* every other session as they were; when A has no entry it changes neither
\* the registry nor any file; in both cases it answers success.
C27_PurgeFrame ==
    [][call'.op = "cleanup"
          => LET A == call'.res.sid IN
             /\ call'.res.status = 200 /\ call'.res.error = ""
             /\ \A B \in Sessions \ {A} :
                   /\ (B \in DOMAIN TEMP_FILES) = (B \in DOMAIN TEMP_FILES')
                   /\ Listed(B)' = Listed(B)
                   /\ \A p \in Range(Listed(B)) : (p \in disk') = (p \in disk)
             /\ disk \ disk' \subseteq Range(Listed(A))
             /\ disk' \subseteq disk
             /\ A \notin DOMAIN TEMP_FILES
                   => /\ TEMP_FILES' = TEMP_FILES
                      /\ lists' = lists
                      /\ disk' = disk]_vars

\* C27 witness: a cleanup under a session that had no entry (no purge has
\* ever deleted one of it) was answered while another session has an entry
\* whose files are on disk.
C27_Witness ==
    /\ call.op = "cleanup" /\ call.res.status = 200
    /\ call.res.sid \notin DOMAIN TEMP_FILES
    /\ call.res.sid \notin everPurged
    /\ \E B \in Sessions \ {call.res.sid} :
          /\ B \in DOMAIN TEMP_FILES
          /\ Range(Listed(B)) # {} /\ Range(Listed(B)) \subseteq disk

\* ======================================================= the two tables of a load
\* C29: once load_voices has completed, the two tables describe the same
\* voices: every descriptor of a LANGUAGE_VOICES group is a value of
\* VOICE_DATA, every value of VOICE_DATA is in the group of its language, and
\* len(VOICE_DATA) is the sum of the sizes of the groups.
C29_TablesAgree ==
    phase = "serving"
    => LET grouped == values_of(LANGUAGE_VOICES, Len(LANGUAGE_VOICES)) IN
       /\ Range(grouped) \subseteq Range(VOICE_DATA)
       /\ \A i \in 1..Len(VOICE_DATA) :
             VOICE_DATA[i] \in Range(group_of(LANGUAGE_VOICES, VOICE_DATA[i].language))
       /\ Len(VOICE_DATA) = Len(grouped)
=============================================================================
